---- MODULE Spec2Model ----
(***************************************************************************)
(* Request lifecycle of dotweb's HttpServer (server.go): the front door    *)
(* ServeHTTP, SetOffline/IsOffline, and the adapter returned by            *)
(* wrapRouterHandle with its pooled Response/HttpContext, gzip sink,       *)
(* session binding, hijack step, module hooks and deferred finalizer.      *)
(***************************************************************************)
EXTENDS Naturals, Sequences, FiniteSets

\* ---------------------------------------------------------------- bounds
\* requests that arrive in one behaviour
MaxRequests == 2
\* modules registered in DotApp.Modules
NumModules == 2
\* goroutines that call InitSessionManager
NumInits == 2

Reqs == 1..MaxRequests
ModuleIdx == 1..NumModules
Inits == 1..NumInits

\* ------------------------------------------------------ program constants
StatusInternalServerError == 500

gzipScheme == "gzip"
HeaderServer == "Server"
DefaultServerName == "dotweb"
HeaderContentEncoding == "Content-Encoding"
HeaderContentType == "Content-Type"
CharsetUTF8 == "charset=utf-8"
CookieName == "dotweb_sessionId"

\* a nil pointer; the session manager constructed by call n is <<"manager", n>>
Nil == <<>>
\* panic values and trace events are pairs <<site, module index>>
NoPanic == <<>>

\* ------------------------------------------------------------------ state
VARIABLES
    offline,         \* HttpServer.offline
    lastSetOffline,  \* <<argument of the most recent SetOffline call>> (history)
    ServerConfig,    \* HttpServer.ServerConfig (EnabledGzip)
    SessionConfig,   \* HttpServer.SessionConfig (EnabledSession)
    sessionManager,  \* HttpServer.sessionManager
    DotApp,          \* HttpServer.DotApp (Modules, ExceptionHandler)
    pool,            \* HttpServer.pool: free lists of Response / HttpContext
    allocated,       \* objects the pools' New functions have constructed
    GlobalState,     \* process-wide RequestCount / ErrorCount
    minted,          \* session identifiers NewSessionID has handed out
    rq,              \* one goroutine per request: position and locals
    held,            \* HttpContext objects whose fields refer to a request
    lock_session,    \* HttpServer.lock_session: <<>> or <<holder>>
    ini,             \* one goroutine per InitSessionManager call: position
    assigns,         \* the managers assigned to sessionManager, in order (history)
    reads,           \* what the GetSessionManager calls have returned (history)
    wsPanics         \* WebSocket connections whose handler panicked (history)

vars == <<offline, lastSetOffline, ServerConfig, SessionConfig, sessionManager,
          DotApp, pool, allocated, GlobalState, minted, rq, held, lock_session,
          ini, assigns, reads, wsPanics>>

config == <<ServerConfig, SessionConfig, sessionManager, DotApp>>

\* the state of the InitSessionManager callers and the readers
initializers == <<lock_session, ini, assigns, reads>>

\* ------------------------------------------------------- pure functions
\* url.QueryEscape on the identifiers of the model: a space becomes "+"
QueryEscape(s) ==
    [i \in 1..Len(s) |-> IF s[i] = " " THEN "+" ELSE s[i]]

\* identifiers a client may present, and the ones NewSessionID mints
ClientIds == {<<"c">>}
NewSessionID(n) == <<"n", " ">> \o [i \in 1..n |-> "x"]

\* what reaches the network writer: plain chunks, or gzip members that the
\* compressor emits when it is closed
PlainChunk(bytes) == [gz |-> FALSE, bytes |-> bytes]
GzipMember(bytes) == [gz |-> TRUE, bytes |-> bytes]

RECURSIVE Decode(_)
\* what a client reading the network stream recovers
Decode(net) ==
    IF net = <<>> THEN <<>> ELSE net[1].bytes \o Decode(Tail(net))

\* bytes the user handler writes, and the text of a hijack failure
HandlerBody == <<"o", "k">>
HijackErrText == <<"h", "e">>

\* the request as it is before ServeHTTP sees it
NewRequest ==
    [pc |-> "new", isWs |-> FALSE, target |-> <<>>, header |-> {},
     headerAtDispatch |-> {}, cookies |-> <<>>, isHijack |-> FALSE,
     res |-> 0, httpCtx |-> 0, gz |-> "none", SessionID |-> <<>>,
     isEnd |-> FALSE, idx |-> 0, panic |-> NoPanic, escaped |-> NoPanic,
     deferred |-> FALSE, endedAtPre |-> FALSE,
     clientSession |-> [id |-> <<>>, err |-> FALSE], pastSession |-> FALSE,
     offlineAtDispatch |-> FALSE, hijackFailed |-> FALSE, raised |-> <<>>,
     trace |-> <<>>, status |-> 0, written |-> <<>>, gzbuf |-> <<>>,
     net |-> <<>>, resPut |-> 0, ctxPut |-> 0, reqAdded |-> 0,
     errAdded |-> 0, ehCalls |-> <<>>, errorLogs |-> 0, accessLogs |-> 0,
     wrapper |-> "", fileStatus |-> 0, logged |-> <<>>, mintedAtLookup |-> 0]

\* module i of DotApp.Modules: which of its two hooks are registered
ModuleSets ==
    { [i \in ModuleIdx |-> [OnBeginRequest |-> TRUE, OnEndRequest |-> TRUE]],
      [i \in ModuleIdx |-> [OnBeginRequest |-> (i = 1), OnEndRequest |-> (i > 1)]] }

\* the server as NewHttpServer leaves it, with its configuration loaded
InitServer ==
    /\ offline = FALSE
    /\ lastSetOffline = <<>>
    /\ ServerConfig \in [EnabledGzip : BOOLEAN]
    /\ SessionConfig \in [EnabledSession : BOOLEAN]
    /\ DotApp \in [Modules : ModuleSets, ExceptionHandler : BOOLEAN]
    /\ pool = [response |-> {}, context |-> {}]
    /\ allocated = [response |-> 0, context |-> 0]
    /\ GlobalState = [RequestCount |-> 0, ErrorCount |-> 0]
    /\ minted = 0
    /\ rq = [r \in Reqs |-> NewRequest]
    /\ held = {}
    /\ lock_session = <<>>
    /\ ini = [g \in Inits |-> "idle"]
    /\ assigns = <<>>
    /\ reads = {}
    /\ wsPanics = 0

\* the server when it starts to serve: InitSessionManager has run once at
\* start-up when sessions are enabled
Init ==
    /\ InitServer
    /\ sessionManager = IF SessionConfig.EnabledSession THEN <<"manager", 0>> ELSE Nil

\* ------------------------------------------------------------ front door
checkIsWebSocketRequest(connection) == connection = "Upgrade"

IsOffline == offline

SetOffline(off) ==
    /\ offline' = off
    /\ lastSetOffline' = <<off>>
    /\ UNCHANGED <<config, wsPanics, initializers, held, pool, allocated,
                   GlobalState,
                   minted, rq>>

\* the requests of this specification are served one after the other:
\* request r arrives once the requests before it have returned
MayArrive(r) ==
    /\ rq[r].pc = "new"
    /\ \A q \in Reqs : q < r => rq[q].pc = "returned"

\* ServeTarget with the maintenance check made first
ServeTargetOfflineFirst(isWs, off) ==
    IF off THEN "offline" ELSE IF isWs THEN "wsmux" ELSE "router"

\* the downstream handler ServeHTTP hands the request to
ServeTarget(isWs, off) ==
    IF isWs THEN "wsmux" ELSE IF off THEN "offline" ELSE "router"

\* ServeHeader with the Header().Set call left out
ServeHeaderNone(isWs) == {}

\* the response headers ServeHTTP has stamped when it hands the request on
ServeHeader(isWs) ==
    IF isWs THEN {} ELSE {<<HeaderServer, DefaultServerName>>}

\* lines 88-102: the front door hands request r to its downstream handler
Dispatch(r) ==
    /\ \E connection \in {"Upgrade", "keep-alive"} :
         LET isWs == checkIsWebSocketRequest(connection)
             t == ServeTarget(isWs, IsOffline)
         IN rq' = [rq EXCEPT ![r] = [@ EXCEPT
                      !.pc = t,
                      !.isWs = isWs,
                      !.offlineAtDispatch = IsOffline,
                      !.header = ServeHeader(isWs),
                      !.headerAtDispatch = ServeHeader(isWs),
                      !.target = Append(@, t)]]
    /\ UNCHANGED <<offline, lastSetOffline, config, wsPanics, initializers,
                   held, pool,
                   allocated,
                   GlobalState, minted>>

\* ServeHTTP, called for one request at a time
ServeHTTP(r) ==
    /\ MayArrive(r)
    /\ Dispatch(r)

\* ServeHTTP, called by net/http on one goroutine per connection: a request
\* arrives whatever the other requests are doing
ServeHTTPConcurrent(r) ==
    /\ rq[r].pc = "new"
    /\ Dispatch(r)

\* http.DefaultServeMux and DotApp.OfflineServer serve the request themselves
ServeElsewhere(r) ==
    /\ rq[r].pc \in {"wsmux", "offline"}
    /\ rq' = [rq EXCEPT ![r].pc = "done"]
    /\ UNCHANGED <<offline, lastSetOffline, config, wsPanics, initializers,
                   held, pool,
                   allocated,
                   GlobalState, minted>>

\* --------------------------------------------------------- resource pool
\* PoolGet with the object it hands out left in the free list
PoolGetKeeps(free, made) ==
    { [obj |-> o, free |-> free, made |-> made] : o \in free }
      \cup { [obj |-> made + 1, free |-> free, made |-> made + 1] }

\* sync.Pool.Get: one of the free objects, or a new one from New
\* (a sync.Pool may treat its free list as empty at any time)
PoolGet(free, made) ==
    { [obj |-> o, free |-> free \ {o}, made |-> made] : o \in free }
      \cup { [obj |-> made + 1, free |-> free, made |-> made + 1] }

\* sync.Pool.Put
PoolPut(free, o) == free \cup {o}

\* ------------------------------------------------- response sink, headers
\* http.Header.Set: one value per name
SetHeader(h, name, value) ==
    {p \in h : p[1] # name} \cup {<<name, value>>}

\* Response.Write through the sink of request record q: into the compressor
\* when one is installed, else straight to the network writer
Write(q, bytes) ==
    [q EXCEPT !.written = @ \o bytes,
              !.gzbuf = IF q.gz = "open" THEN @ \o bytes ELSE @,
              !.net = IF q.gz = "open" THEN @ ELSE Append(@, PlainChunk(bytes))]

\* gzip.Writer.Close: flushes what the compressor has buffered
CloseGzip(q) ==
    [q EXCEPT !.net = Append(@, GzipMember(q.gzbuf)),
              !.gzbuf = <<>>,
              !.gz = "closed"]

\* Response.Reset(w): the sink starts over on the writer it is given
ResponseReset(q) ==
    [q EXCEPT !.status = 0, !.written = <<>>, !.gz = "none", !.gzbuf = <<>>]

\* HttpContext.Reset(res, r, server, params): every field is overwritten
ContextReset(q) ==
    [q EXCEPT !.SessionID = <<>>, !.isEnd = FALSE]

\* the contexts that refer to a request once context c has been Reset: its
\* fields now hold the request, the sink, the server (and later the
\* WebSocket handle)
Retain(h, c) == h \cup {c}

\* HttpContext.release(): the context's references are cleared
release(h, c) == h \ {c}

\* ---------------------------------------------------- wrapRouterHandle
\* lines 191-195: the router calls the adapter of the matched route
\* (isHijack is a property of the route); both objects come from the pool
\* and are reset
Acquire(r) ==
    /\ rq[r].pc = "router"
    /\ \E isHijack \in BOOLEAN :
       \E gr \in PoolGet(pool.response, allocated.response) :
       \E gc \in PoolGet(pool.context, allocated.context) :
         /\ pool' = [response |-> gr.free, context |-> gc.free]
         /\ allocated' = [response |-> gr.made, context |-> gc.made]
         /\ rq' = [rq EXCEPT ![r] = [ContextReset(ResponseReset(@)) EXCEPT
                      !.pc = "setup",
                      !.isHijack = isHijack,
                      !.res = gr.obj,
                      !.httpCtx = gc.obj]]
         /\ held' = Retain(held, gc.obj)
    /\ UNCHANGED <<offline, lastSetOffline, config, wsPanics, initializers,
                   GlobalState,
                   minted>>

\* lines 197-208: the compressing sink, then the request counter
Setup(r) ==
    /\ rq[r].pc = "setup"
    /\ \E gzipErr \in (IF ServerConfig.EnabledGzip THEN BOOLEAN ELSE {FALSE}) :
         IF gzipErr
         THEN \* panic("use gzip error -> ...") with no deferred call registered
              /\ rq' = [rq EXCEPT ![r] = [@ EXCEPT
                           !.pc = "done",
                           !.raised = Append(@, <<"gzip", 0>>),
                           !.escaped = <<"gzip", 0>>]]
              /\ UNCHANGED GlobalState
         ELSE /\ rq' = [rq EXCEPT ![r] = [@ EXCEPT
                           !.pc = "session",
                           !.gz = IF ServerConfig.EnabledGzip THEN "open" ELSE @,
                           !.header = IF ServerConfig.EnabledGzip
                                      THEN SetHeader(@, HeaderContentEncoding, gzipScheme)
                                      ELSE @,
                           !.reqAdded = @ + 1]]
              /\ GlobalState' = [GlobalState EXCEPT !.RequestCount = @ + 1]
    /\ UNCHANGED <<offline, lastSetOffline, config, wsPanics, initializers,
                   held, pool,
                   allocated, minted>>

\* GetSessionManager (lines 150-155)
GetSessionManager ==
    IF ~SessionConfig.EnabledSession THEN Nil ELSE sessionManager

\* BindSession with the SetCookie call left out
BindSessionWithoutCookie(cs, fresh) ==
    IF ~cs.err /\ cs.id # <<>>
    THEN [SessionID |-> cs.id, cookies |-> <<>>, mint |-> FALSE]
    ELSE [SessionID |-> fresh, cookies |-> <<>>, mint |-> TRUE]

\* BindSession with the err == nil test left out
BindSessionIgnoresErr(cs, fresh) ==
    IF cs.id # <<>>
    THEN [SessionID |-> cs.id, cookies |-> <<>>, mint |-> FALSE]
    ELSE [SessionID |-> fresh,
          cookies |-> << [Name |-> CookieName,
                          Value |-> QueryEscape(fresh),
                          Path |-> "/"] >>,
          mint |-> TRUE]

\* lines 214-225: the identifier the client presented, or a new one and its
\* cookie; cs is what GetClientSessionID returned, fresh what NewSessionID
\* would return
BindSession(cs, fresh) ==
    IF ~cs.err /\ cs.id # <<>>
    THEN [SessionID |-> cs.id, cookies |-> <<>>, mint |-> FALSE]
    ELSE [SessionID |-> fresh,
          cookies |-> << [Name |-> CookieName,
                          Value |-> QueryEscape(fresh),
                          Path |-> "/"] >>,
          mint |-> TRUE]

\* lines 210-214: GetClientSessionID reads the identifier the client
\* presented; a nil session manager is dereferenced at line 214, with no
\* deferred call registered yet
Session(r) ==
    /\ rq[r].pc = "session"
    /\ IF SessionConfig.EnabledSession /\ GetSessionManager = Nil
       THEN /\ rq' = [rq EXCEPT ![r] = [@ EXCEPT
                         !.pc = "done",
                         !.raised = Append(@, <<"nilmanager", 0>>),
                         !.escaped = <<"nilmanager", 0>>]]
            /\ UNCHANGED minted
       ELSE IF SessionConfig.EnabledSession
       THEN /\ \E id \in {<<>>} \cup ClientIds, err \in BOOLEAN :
                 rq' = [rq EXCEPT ![r] = [@ EXCEPT
                           !.pc = "bind",
                           !.mintedAtLookup = minted,
                           !.clientSession = [id |-> id, err |-> err]]]
            /\ UNCHANGED minted
       ELSE /\ rq' = [rq EXCEPT ![r] = [@ EXCEPT
                         !.pc = "hijack", !.pastSession = TRUE]]
            /\ UNCHANGED minted
    /\ UNCHANGED <<offline, lastSetOffline, config, wsPanics, initializers,
                   held, pool,
                   allocated, GlobalState>>

\* lines 215-225: the identifier found at line 214 is kept, or a new one is
\* minted and its cookie set
SessionBind(r) ==
    /\ rq[r].pc = "bind"
    /\ LET b == BindSession(rq[r].clientSession, NewSessionID(minted + 1))
       IN /\ rq' = [rq EXCEPT ![r] = [@ EXCEPT
                       !.pc = "hijack",
                       !.pastSession = TRUE,
                       !.SessionID = b.SessionID,
                       !.cookies = @ \o b.cookies]]
          /\ minted' = IF b.mint THEN minted + 1 ELSE minted
    /\ UNCHANGED <<offline, lastSetOffline, config, wsPanics, initializers, held,
                   pool, allocated, GlobalState>>

\* AfterPre with the loop left after its first module
AfterPreBreaks(i) ==
    IF i < 1 /\ i < Len(DotApp.Modules) THEN [pc |-> "pre", idx |-> i + 1]
    ELSE [pc |-> "handle", idx |-> 0]

\* where the adapter is after the pre-hook loop has passed module i
AfterPre(i) ==
    IF i < Len(DotApp.Modules) THEN [pc |-> "pre", idx |-> i + 1]
    ELSE [pc |-> "handle", idx |-> 0]

\* where the adapter is after the post-hook loop has passed module i; the
\* function returns after the last one and its deferred call runs
AfterPost(i) ==
    IF i < Len(DotApp.Modules) THEN [pc |-> "post", idx |-> i + 1]
    ELSE [pc |-> "recover", idx |-> 0]

\* AfterHijack with the finalizer registered ahead of the hijack step
AfterHijackDeferred(hijackErr) ==
    IF hijackErr THEN [pc |-> "recover", idx |-> 0, deferred |-> TRUE]
    ELSE [pc |-> AfterPre(0).pc, idx |-> AfterPre(0).idx, deferred |-> TRUE]

\* lines 230-242: where the adapter goes from the hijack step: a failed
\* hijack returns at once, with no deferred call registered; otherwise the
\* finalizer is registered and the pre-hooks start
AfterHijack(hijackErr) ==
    IF hijackErr THEN [pc |-> "done", idx |-> 0, deferred |-> FALSE]
    ELSE [pc |-> AfterPre(0).pc, idx |-> AfterPre(0).idx, deferred |-> TRUE]

\* lines 229-242: the hijack step; past it the finalizer is registered
Hijack(r) ==
    /\ rq[r].pc = "hijack"
    /\ \E hijackErr \in (IF rq[r].isHijack THEN BOOLEAN ELSE {FALSE}) :
         LET nxt == AfterHijack(hijackErr)
             q == IF hijackErr
                  THEN Write([rq[r] EXCEPT
                                 !.status = StatusInternalServerError,
                                 !.header = SetHeader(@, HeaderContentType, CharsetUTF8),
                                 !.hijackFailed = TRUE],
                             HijackErrText)
                  ELSE rq[r]
         IN rq' = [rq EXCEPT ![r] = [q EXCEPT
                      !.pc = nxt.pc,
                      !.idx = nxt.idx,
                      !.deferred = nxt.deferred,
                      !.endedAtPre = (nxt.pc = "handle") /\ q.isEnd]]
    /\ UNCHANGED <<offline, lastSetOffline, config, wsPanics, initializers,
                   held, pool,
                   allocated,
                   GlobalState, minted>>

\* what a hook or the handler may do: return, call HttpContext.End and
\* return, or panic
HookOutcomes == {"return", "end", "panic"}

\* lines 282-286: module idx of the pre-hook loop
PreHook(r) ==
    /\ rq[r].pc = "pre"
    /\ LET i == rq[r].idx
           nxt == AfterPre(i)
       IN IF DotApp.Modules[i].OnBeginRequest
          THEN \E out \in HookOutcomes :
                 rq' = [rq EXCEPT ![r] = [@ EXCEPT
                     !.trace = Append(@, <<"pre", i>>),
                     !.isEnd = @ \/ (out = "end"),
                     !.panic = IF out = "panic" THEN <<"pre", i>> ELSE @,
                     !.raised = IF out = "panic" THEN Append(@, <<"pre", i>>) ELSE @,
                     !.pc = IF out = "panic" THEN "recover" ELSE nxt.pc,
                     !.idx = IF out = "panic" THEN 0 ELSE nxt.idx,
                     !.endedAtPre = (out # "panic") /\ (nxt.pc = "handle")
                                      /\ (rq[r].isEnd \/ out = "end")]]
          ELSE rq' = [rq EXCEPT ![r] = [@ EXCEPT
                     !.pc = nxt.pc,
                     !.idx = nxt.idx,
                     !.endedAtPre = (nxt.pc = "handle") /\ rq[r].isEnd]]
    /\ UNCHANGED <<offline, lastSetOffline, config, wsPanics, initializers,
                   held, pool,
                   allocated,
                   GlobalState, minted>>

\* HandlerRuns with the IsEnd test left out
HandlerRunsAlways(isEnd) == TRUE

\* line 290: the user handler is skipped once the context has ended
HandlerRuns(isEnd) == ~isEnd

\* lines 288-292: the user handler writes its body, then returns or panics
Handle(r) ==
    /\ rq[r].pc = "handle"
    /\ IF HandlerRuns(rq[r].isEnd)
       THEN \E out \in {"return", "panic"} :
              rq' = [rq EXCEPT ![r] =
                  [Write([@ EXCEPT !.status = 200], HandlerBody) EXCEPT
                     !.trace = Append(@, <<"handle", 0>>),
                     !.panic = IF out = "panic" THEN <<"handle", 0>> ELSE @,
                     !.raised = IF out = "panic" THEN Append(@, <<"handle", 0>>) ELSE @,
                     !.pc = IF out = "panic" THEN "recover" ELSE AfterPost(0).pc,
                     !.idx = IF out = "panic" THEN 0 ELSE AfterPost(0).idx]]
       ELSE rq' = [rq EXCEPT ![r] = [@ EXCEPT
                  !.pc = AfterPost(0).pc, !.idx = AfterPost(0).idx]]
    /\ UNCHANGED <<offline, lastSetOffline, config, wsPanics, initializers,
                   held, pool,
                   allocated,
                   GlobalState, minted>>

\* lines 295-299: module idx of the post-hook loop
PostHook(r) ==
    /\ rq[r].pc = "post"
    /\ LET i == rq[r].idx
           nxt == AfterPost(i)
       IN IF DotApp.Modules[i].OnEndRequest
          THEN \E out \in {"return", "panic"} :
                 rq' = [rq EXCEPT ![r] = [@ EXCEPT
                     !.trace = Append(@, <<"post", i>>),
                     !.panic = IF out = "panic" THEN <<"post", i>> ELSE @,
                     !.raised = IF out = "panic" THEN Append(@, <<"post", i>>) ELSE @,
                     !.pc = IF out = "panic" THEN "recover" ELSE nxt.pc,
                     !.idx = IF out = "panic" THEN 0 ELSE nxt.idx]]
          ELSE rq' = [rq EXCEPT ![r] = [@ EXCEPT
                     !.pc = nxt.pc, !.idx = nxt.idx]]
    /\ UNCHANGED <<offline, lastSetOffline, config, wsPanics, initializers,
                   held, pool,
                   allocated,
                   GlobalState, minted>>

\* ------------------------------------------- the finalizer (lines 242-279)
\* lines 243-264: recover; on a panic the ExceptionHandler, the error log
\* and the error counter. A panic of the ExceptionHandler leaves the
\* deferred call, and with it the adapter.
Recover(r) ==
    /\ rq[r].pc = "recover"
    /\ LET err == rq[r].panic
       IN IF err = NoPanic
          THEN /\ rq' = [rq EXCEPT ![r] = [@ EXCEPT
                            !.trace = Append(@, <<"finalizer", 0>>),
                            !.pc = "finish"]]
               /\ UNCHANGED GlobalState
          ELSE \E ehPanics \in (IF DotApp.ExceptionHandler THEN BOOLEAN ELSE {FALSE}) :
                 IF ehPanics
                 THEN /\ rq' = [rq EXCEPT ![r] = [@ EXCEPT
                                   !.trace = Append(@, <<"finalizer", 0>>),
                                   !.panic = NoPanic,
                                   !.ehCalls = Append(@, err),
                                   !.raised = Append(@, <<"exceptionhandler", 0>>),
                                   !.escaped = <<"exceptionhandler", 0>>,
                                   !.pc = "done"]]
                      /\ UNCHANGED GlobalState
                 ELSE /\ rq' = [rq EXCEPT ![r] = [@ EXCEPT
                                   !.trace = Append(@, <<"finalizer", 0>>),
                                   !.panic = NoPanic,
                                   !.ehCalls = IF DotApp.ExceptionHandler
                                               THEN Append(@, err) ELSE @,
                                   !.errorLogs = @ + 1,
                                   !.errAdded = @ + 1,
                                   !.pc = "finish"]]
                      /\ GlobalState' = [GlobalState EXCEPT !.ErrorCount = @ + 1]
    /\ UNCHANGED <<offline, lastSetOffline, config, wsPanics, initializers,
                   held, pool,
                   allocated, minted>>

\* lines 265-278: the access log, the compressor's Close, then the sink and
\* the context go back to the pool.  res.Writer().(*gzipResponseWriter)
\* panics when the sink holds no compressor.
Finish(r) ==
    /\ rq[r].pc = "finish"
    /\ IF ServerConfig.EnabledGzip /\ rq[r].gz # "open"
       THEN /\ rq' = [rq EXCEPT ![r] = [@ EXCEPT
                         !.accessLogs = @ + 1,
                         !.raised = Append(@, <<"typeassert", 0>>),
                         !.escaped = <<"typeassert", 0>>,
                         !.pc = "done"]]
            /\ UNCHANGED <<pool, held>>
       ELSE /\ rq' = [rq EXCEPT ![r] =
                  [(IF ServerConfig.EnabledGzip THEN CloseGzip(@) ELSE @) EXCEPT
                         !.accessLogs = @ + 1,
                         !.resPut = @ + 1,
                         !.ctxPut = @ + 1,
                         !.trace = Append(@, <<"release", 0>>),
                         !.pc = "done"]]
            /\ held' = release(held, rq[r].httpCtx)
            /\ pool' = [response |-> PoolPut(pool.response, rq[r].res),
                        context |-> PoolPut(pool.context, rq[r].httpCtx)]
    /\ UNCHANGED <<offline, lastSetOffline, config, wsPanics, initializers,
                   allocated,
                   GlobalState, minted>>

\* ServeHTTP returns to net/http and the goroutine's locals are gone
Return(r) ==
    /\ rq[r].pc = "done"
    /\ rq' = [rq EXCEPT ![r] = [NewRequest EXCEPT !.pc = "returned"]]
    /\ UNCHANGED <<offline, lastSetOffline, config, wsPanics, initializers,
                   held, pool,
                   allocated,
                   GlobalState, minted>>

Next ==
    \/ \E off \in BOOLEAN : SetOffline(off)
    \/ \E r \in Reqs :
         \/ ServeHTTP(r)
         \/ ServeElsewhere(r)
         \/ Acquire(r)
         \/ Setup(r)
         \/ Session(r)
         \/ SessionBind(r)
         \/ Hijack(r)
         \/ PreHook(r)
         \/ Handle(r)
         \/ PostHook(r)
         \/ Recover(r)
         \/ Finish(r)
         \/ Return(r)

Spec == Init /\ [][Next]_vars

\* ------------------------------------------------------- wrapFileHandle
\* convert.Int2String on the status codes of the model
Int2String(n) ==
    CASE n = 200 -> "200"
      [] n = 404 -> "404"
      [] OTHER -> "0"

\* logRequest with the status taken from what the file handler answered
logRequestOfOutcome(q) ==
    [method |-> "GET", proto |-> "HTTP/1.1", status |-> Int2String(q.fileStatus),
     resbytelen |-> ""]

\* logRequest (lines 395-413): the fields of the access-log line it builds
\* from the raw request of record q
logRequest(q) ==
    [method |-> "GET", proto |-> "HTTP/1.1", status |-> "200",
     resbytelen |-> ""]

\* what the externally supplied file handler may do: answer with a status,
\* or panic
FileOutcomes == {200, 404, 0}

\* lines 305-316: the adapter of a static-file route, called by the router
wrapFileHandle(r) ==
    /\ rq[r].pc = "router"
    /\ \E out \in FileOutcomes :
         LET q == [rq[r] EXCEPT !.wrapper = "file",
                                !.reqAdded = @ + 1,
                                !.fileStatus = out,
                                !.status = out]
         IN rq' = [rq EXCEPT ![r] =
                IF out = 0
                THEN [q EXCEPT !.raised = Append(@, <<"file", 0>>),
                               !.escaped = <<"file", 0>>,
                               !.pc = "done"]
                ELSE [q EXCEPT !.accessLogs = @ + 1,
                               !.logged = Append(@, logRequest(q)),
                               !.pc = "done"]]
    /\ GlobalState' = [GlobalState EXCEPT !.RequestCount = @ + 1]
    /\ UNCHANGED <<offline, lastSetOffline, config, wsPanics, initializers, held,
                   pool, allocated, minted>>

\* -------------------------------------------------- wrapWebSocketHandle
\* lines 321-328: the context comes from the pool and is reset without a
\* sink; the WebSocket handle is attached; the finalizer is registered
WsAcquire(r) ==
    /\ rq[r].pc = "wsmux"
    /\ \E gc \in PoolGet(pool.context, allocated.context) :
         /\ pool' = [pool EXCEPT !.context = gc.free]
         /\ allocated' = [allocated EXCEPT !.context = gc.made]
         /\ held' = Retain(held, gc.obj)
         /\ rq' = [rq EXCEPT ![r] = [ContextReset(@) EXCEPT
                      !.pc = "wshandle",
                      !.wrapper = "ws",
                      !.deferred = TRUE,
                      !.httpCtx = gc.obj]]
    /\ UNCHANGED <<offline, lastSetOffline, config, wsPanics, initializers,
                   GlobalState, minted>>

\* WsRequestCounted with the counter raised ahead of the handler
WsRequestCountedAlways(out) == TRUE

\* line 359 is reached only when the handler of line 356 returns
WsRequestCounted(out) == out = "return"

\* lines 356-359: the user handler; the request counter only when it returns
WsHandle(r) ==
    /\ rq[r].pc = "wshandle"
    /\ \E out \in {"return", "panic"} :
         /\ rq' = [rq EXCEPT ![r] = [@ EXCEPT
                      !.trace = Append(@, <<"handle", 0>>),
                      !.panic = IF out = "panic" THEN <<"handle", 0>> ELSE @,
                      !.raised = IF out = "panic" THEN Append(@, <<"handle", 0>>) ELSE @,
                      !.reqAdded = IF WsRequestCounted(out) THEN @ + 1 ELSE @,
                      !.pc = "wsfinish"]]
         /\ GlobalState' = [GlobalState EXCEPT
                      !.RequestCount = IF WsRequestCounted(out) THEN @ + 1 ELSE @]
         /\ wsPanics' = IF out = "panic" THEN wsPanics + 1 ELSE wsPanics
    /\ UNCHANGED <<offline, lastSetOffline, config, initializers, held, pool,
                   allocated, minted>>

\* lines 331-354: the finalizer: recover, error log and error counter on a
\* panic, the access log, then the context goes back to the pool as it is
WsFinish(r) ==
    /\ rq[r].pc = "wsfinish"
    /\ LET err == rq[r].panic
       IN /\ rq' = [rq EXCEPT ![r] = [@ EXCEPT
                       !.trace = Append(@, <<"finalizer", 0>>),
                       !.panic = NoPanic,
                       !.errorLogs = IF err = NoPanic THEN @ ELSE @ + 1,
                       !.errAdded = IF err = NoPanic THEN @ ELSE @ + 1,
                       !.accessLogs = @ + 1,
                       !.ctxPut = @ + 1,
                       !.pc = "done"]]
          /\ GlobalState' = [GlobalState EXCEPT
                       !.ErrorCount = IF err = NoPanic THEN @ ELSE @ + 1]
    /\ pool' = [pool EXCEPT !.context = PoolPut(@, rq[r].httpCtx)]
    /\ UNCHANGED <<offline, lastSetOffline, config, wsPanics, initializers, held,
                   allocated, minted>>

\* the three wrappers behind the front door, requests served one at a time
NextWrappers ==
    \E r \in Reqs :
        \/ ServeHTTP(r)
        \/ ServeElsewhere(r)
        \/ Acquire(r)
        \/ Setup(r)
        \/ Session(r)
        \/ SessionBind(r)
        \/ Hijack(r)
        \/ PreHook(r)
        \/ Handle(r)
        \/ PostHook(r)
        \/ Recover(r)
        \/ Finish(r)
        \/ wrapFileHandle(r)
        \/ WsAcquire(r)
        \/ WsHandle(r)
        \/ WsFinish(r)
        \/ Return(r)

SpecWrappers == Init /\ [][NextWrappers]_vars

\* ---------------------------------------------------------------- claims
\* the adapter of wrapRouterHandle has taken its objects from the pool
Entered(r) == rq[r].res # 0
\* the adapter (or the downstream handler) has exited
Exited(r) == rq[r].pc = "done"

Raised(r, site) == \E k \in 1..Len(rq[r].raised) : rq[r].raised[k][1] = site

\* the events of one kind in the order they happened
Events(r, kind) == SelectSeq(rq[r].trace, LAMBDA e : e[1] = kind)

\* the registered hooks of one kind, in registration order
RegisteredPre ==
    SelectSeq([i \in 1..Len(DotApp.Modules) |-> <<"pre", i>>],
              LAMBDA e : DotApp.Modules[e[2]].OnBeginRequest)
RegisteredPost ==
    SelectSeq([i \in 1..Len(DotApp.Modules) |-> <<"post", i>>],
              LAMBDA e : DotApp.Modules[e[2]].OnEndRequest)

\* the hooks of seq up to and including hook e
UpTo(seq, e) ==
    SelectSeq(seq, LAMBDA x : x[2] <= e[2])

\* the hooks of one kind that run when the hooks of that kind are reached:
\* all of them, or those up to the first one that panics
RunUntilPanic(r, registered, kind) ==
    IF Raised(r, kind)
    THEN UpTo(registered, CHOOSE e \in {rq[r].raised[k] : k \in 1..Len(rq[r].raised)} :
                              e[1] = kind)
    ELSE registered

\* position of the first event of a kind in the trace (0: none)
FirstAt(r, kind) ==
    IF \E k \in 1..Len(rq[r].trace) : rq[r].trace[k][1] = kind
    THEN CHOOSE k \in 1..Len(rq[r].trace) :
           /\ rq[r].trace[k][1] = kind
           /\ \A j \in 1..(k - 1) : rq[r].trace[j][1] # kind
    ELSE 0

\* rank of an event kind in the order the adapter is meant to follow
Phase(kind) ==
    CASE kind = "pre" -> 1
      [] kind = "handle" -> 2
      [] kind = "post" -> 3
      [] kind = "finalizer" -> 4
      [] OTHER -> 5

\* the trace never steps back to an earlier phase
PhaseOrdered(r) ==
    \A j, k \in 1..Len(rq[r].trace) :
        j < k => Phase(rq[r].trace[j][1]) <= Phase(rq[r].trace[k][1])

\* C1: on every exit of the adapter (normal return, hook or handler panic,
\* hijack failure) the sink and the context taken from the pool have each
\* been put back exactly once.  (The exit by a failing gzip construction is
\* C10's and is left out here.)
C1_ReleasedExactlyOnce ==
    \A r \in Reqs :
        (Exited(r) /\ Entered(r) /\ ~Raised(r, "gzip"))
            => (rq[r].resPut = 1 /\ rq[r].ctxPut = 1)

\* C2: when the user handler panics and an ExceptionHandler is registered,
\* the ExceptionHandler has been called exactly once, with the handler's
\* panic value, the request has added exactly 1 to the error counter, and no
\* panic has left the adapter.
C2_HandlerPanicHandled ==
    \A r \in Reqs :
        (Exited(r) /\ Raised(r, "handle") /\ DotApp.ExceptionHandler)
            => /\ rq[r].ehCalls = << <<"handle", 0>> >>
               /\ rq[r].errAdded = 1
               /\ rq[r].escaped = NoPanic

C6_GzipFlushed ==
    \A r \in Reqs :
        (Exited(r) /\ Entered(r) /\ ~Raised(r, "gzip"))
            => IF ServerConfig.EnabledGzip
               THEN /\ <<HeaderContentEncoding, gzipScheme>> \in rq[r].header
                    /\ rq[r].gz = "closed"
                    /\ \A k \in 1..Len(rq[r].net) : rq[r].net[k].gz
                    /\ Decode(rq[r].net) = rq[r].written
               ELSE /\ \A p \in rq[r].header : p[1] # HeaderContentEncoding
                    /\ \A k \in 1..Len(rq[r].net) : ~rq[r].net[k].gz
                    /\ Decode(rq[r].net) = rq[r].written

\* C7: past the session step, with sessions enabled: if GetClientSessionID
\* returned a non-empty identifier and no error, SessionID is that
\* identifier and no cookie is set; otherwise SessionID is a newly minted
\* identifier and exactly one cookie, carrying it (query-escaped), is set.
\* With sessions disabled SessionID is unbound and no cookie is set.
C7_SessionBinding ==
    \A r \in Reqs :
        rq[r].pastSession =>
            IF SessionConfig.EnabledSession
            THEN IF ~rq[r].clientSession.err /\ rq[r].clientSession.id # <<>>
                 THEN /\ rq[r].SessionID = rq[r].clientSession.id
                      /\ rq[r].cookies = <<>>
                 ELSE /\ \E n \in 1..minted : rq[r].SessionID = NewSessionID(n)
                      /\ rq[r].cookies =
                            << [Name |-> CookieName,
                                Value |-> QueryEscape(rq[r].SessionID),
                                Path |-> "/"] >>
            ELSE rq[r].SessionID = <<>> /\ rq[r].cookies = <<>>

C7_Witness ==
    \E r \in Reqs :
        /\ rq[r].pastSession /\ SessionConfig.EnabledSession
        /\ rq[r].clientSession.err /\ rq[r].clientSession.id # <<>>
        /\ Len(rq[r].cookies) = 1
        /\ rq[r].cookies[1].Value # rq[r].SessionID

\* C8: ServeHTTP hands every request to exactly one downstream target: the
\* WebSocket mux for a WebSocket upgrade; otherwise the maintenance handler
\* if the server is offline, and then never the router; otherwise the
\* router.  IsOffline is the value of the most recent SetOffline call.
C8_DispatchPriority ==
    /\ IsOffline = (IF lastSetOffline = <<>> THEN FALSE ELSE lastSetOffline[1])
    /\ \A r \in Reqs :
         /\ rq[r].pc \notin {"new", "returned"} =>
              /\ Len(rq[r].target) = 1
              /\ rq[r].target[1] =
                    (IF rq[r].isWs THEN "wsmux"
                     ELSE IF rq[r].offlineAtDispatch THEN "offline"
                     ELSE "router")
         /\ Entered(r) => (~rq[r].isWs /\ ~rq[r].offlineAtDispatch)
         /\ rq[r].pc \in {"wsmux", "offline"} => rq[r].target = <<rq[r].pc>>

C8_Witness ==
    \E r, q \in Reqs :
        /\ rq[q].pc = "returned"
        /\ rq[r].isWs /\ rq[r].offlineAtDispatch /\ rq[r].target = <<"wsmux">>
        /\ lastSetOffline = <<FALSE>>

\* C9: in streaming mode, when the hijack fails the wrapper writes status
\* 500 and the failure text and returns at once: no pre-hook, handler or
\* post-hook runs, and neither the finalizer nor the error counter.
C9_HijackFailure ==
    \A r \in Reqs :
        rq[r].hijackFailed =>
            /\ Exited(r) /\ rq[r].isHijack
            /\ rq[r].status = StatusInternalServerError
            /\ rq[r].written = HijackErrText
            /\ rq[r].trace = <<>>
            /\ ~rq[r].deferred
            /\ rq[r].ehCalls = <<>>
            /\ rq[r].errorLogs = 0 /\ rq[r].errAdded = 0
            /\ rq[r].accessLogs = 0

C9_Witness ==
    \E r \in Reqs :
        /\ rq[r].hijackFailed /\ Exited(r)
        /\ Len(RegisteredPre) >= 1 /\ Len(RegisteredPost) >= 1

\* C10: a panic of the gzip construction is caught by the request's own
\* finalizer: it is counted as an error, the sink and the context go back
\* to the pool, and the panic does not leave the adapter.
C10_GzipPanicCaught ==
    \A r \in Reqs :
        (Exited(r) /\ Raised(r, "gzip"))
            => /\ rq[r].escaped = NoPanic
               /\ rq[r].errAdded = 1
               /\ rq[r].resPut = 1 /\ rq[r].ctxPut = 1

\* C14: a panic of a pre-hook or post-hook is handled like a handler panic:
\* it is recovered, passed once to the registered ExceptionHandler, logged
\* as an error and counted once, the access log and the pool release
\* follow, no hook or handler after the panic site runs, and no panic
\* leaves the adapter.
C14_HookPanicHandled ==
    \A r \in Reqs :
        (Exited(r) /\ (Raised(r, "pre") \/ Raised(r, "post")))
            => /\ rq[r].ehCalls =
                     (IF DotApp.ExceptionHandler THEN <<rq[r].raised[1]>> ELSE <<>>)
               /\ rq[r].errorLogs = 1 /\ rq[r].errAdded = 1
               /\ rq[r].accessLogs = 1
               /\ rq[r].resPut = 1 /\ rq[r].ctxPut = 1
               /\ rq[r].escaped = NoPanic
               /\ \E k \in 1..Len(rq[r].trace) :
                     /\ rq[r].trace[k] = rq[r].raised[1]
                     /\ \A j \in (k + 1)..Len(rq[r].trace) :
                           rq[r].trace[j][1] \notin {"pre", "handle", "post"}

\* C20: when the ExceptionHandler itself panics inside the finalizer, the
\* rest of the finalizer still happens: the error is counted, the access
\* log is written, the sink and the context go back to the pool, and no
\* panic leaves the adapter.
C20_FinalizerSurvivesHandlerPanic ==
    \A r \in Reqs :
        (Exited(r) /\ Raised(r, "exceptionhandler"))
            => /\ rq[r].errAdded = 1
               /\ rq[r].accessLogs = 1
               /\ rq[r].resPut = 1 /\ rq[r].ctxPut = 1
               /\ rq[r].escaped = NoPanic

\* --------------------------------------------------- InitSessionManager
\* line 129: the nil test, made without the lock
InitCheck(g) ==
    /\ ini[g] = "idle"
    /\ ini' = [ini EXCEPT ![g] = IF sessionManager = Nil THEN "lock" ELSE "done"]
    /\ UNCHANGED <<offline, lastSetOffline, config, wsPanics, lock_session,
                   assigns, reads, held, pool, allocated, GlobalState, minted, rq>>

\* line 131: lock_session.Lock() waits until the lock is free
InitLock(g) ==
    /\ ini[g] = "lock"
    /\ lock_session = <<>>
    /\ lock_session' = <<g>>
    /\ ini' = [ini EXCEPT ![g] = "construct"]
    /\ UNCHANGED <<offline, lastSetOffline, config, wsPanics, assigns, reads,
                   held, pool, allocated, GlobalState, minted, rq>>

\* lines 132-137: NewDefaultSessionManager; its error is a panic that leaves
\* the function with the lock held, its manager is assigned
InitConstruct(g) ==
    /\ ini[g] = "construct"
    /\ \E err \in BOOLEAN :
         IF err
         THEN /\ ini' = [ini EXCEPT ![g] = "panicked"]
              /\ UNCHANGED <<sessionManager, assigns>>
         ELSE /\ sessionManager' = <<"manager", g>>
              /\ assigns' = Append(assigns, <<"manager", g>>)
              /\ ini' = [ini EXCEPT ![g] = "unlock"]
    /\ UNCHANGED <<offline, lastSetOffline, ServerConfig, SessionConfig, DotApp,
                   wsPanics, lock_session, reads, held, pool, allocated,
                   GlobalState, minted, rq>>

\* line 138: lock_session.Unlock()
InitUnlock(g) ==
    /\ ini[g] = "unlock"
    /\ lock_session' = <<>>
    /\ ini' = [ini EXCEPT ![g] = "done"]
    /\ UNCHANGED <<offline, lastSetOffline, config, wsPanics, assigns, reads,
                   held, pool, allocated, GlobalState, minted, rq>>

\* an InitSessionManager call is between its Lock and its Unlock
Initializing == \E g \in Inits : ini[g] \in {"construct", "unlock"}

\* a caller of GetSessionManager (lines 150-155) gets its answer; the read
\* takes no lock
ReadSessionManager ==
    /\ reads' = reads \cup {[manager |-> GetSessionManager,
                             initializing |-> Initializing]}
    /\ UNCHANGED <<offline, lastSetOffline, config, wsPanics, lock_session, ini,
                   assigns, held, pool, allocated, GlobalState, minted, rq>>

NextSession ==
    \/ \E g \in Inits :
         \/ InitCheck(g)
         \/ InitLock(g)
         \/ InitConstruct(g)
         \/ InitUnlock(g)
    \/ ReadSessionManager

\* the server before its session manager exists
InitNoManager ==
    /\ InitServer
    /\ sessionManager = Nil

SpecSession == InitNoManager /\ [][NextSession]_vars

\* ----------------------------------------------------- requests in flight
\* the standard and the WebSocket wrapper with requests served concurrently
NextConcurrent ==
    \E r \in Reqs :
        \/ ServeHTTPConcurrent(r)
        \/ ServeElsewhere(r)
        \/ Acquire(r)
        \/ Setup(r)
        \/ Session(r)
        \/ SessionBind(r)
        \/ Hijack(r)
        \/ PreHook(r)
        \/ Handle(r)
        \/ PostHook(r)
        \/ Recover(r)
        \/ Finish(r)
        \/ WsAcquire(r)
        \/ WsHandle(r)
        \/ WsFinish(r)
        \/ Return(r)

\* a server with sessions enabled, no gzip, a module with a pre-hook and
\* modules with a post-hook
InitConcurrent ==
    /\ Init
    /\ ~ServerConfig.EnabledGzip
    /\ SessionConfig.EnabledSession
    /\ DotApp.Modules = [i \in ModuleIdx |-> [OnBeginRequest |-> (i = 1),
                                              OnEndRequest |-> (i > 1)]]

SpecConcurrent == InitConcurrent /\ [][NextConcurrent]_vars

\* ------------------------------------------------ administrative calls
\* an administrative call writes ServerConfig.EnabledGzip; the adapter reads
\* the flag at line 198 and again at line 269
SetEnabledGzip(on) ==
    /\ ServerConfig.EnabledGzip # on
    /\ ServerConfig' = [ServerConfig EXCEPT !.EnabledGzip = on]
    /\ UNCHANGED <<offline, lastSetOffline, SessionConfig, sessionManager, DotApp,
                   wsPanics, initializers, held, pool, allocated, GlobalState,
                   minted, rq>>

\* the standard wrapper with the gzip flag changed while requests are served
NextAdmin ==
    \/ \E on \in BOOLEAN : SetEnabledGzip(on)
    \/ \E r \in Reqs :
         \/ ServeHTTP(r)
         \/ ServeElsewhere(r)
         \/ Acquire(r)
         \/ Setup(r)
         \/ Session(r)
         \/ SessionBind(r)
         \/ Hijack(r)
         \/ PreHook(r)
         \/ Handle(r)
         \/ PostHook(r)
         \/ Recover(r)
         \/ Finish(r)
         \/ Return(r)

SpecAdmin == Init /\ [][NextAdmin]_vars

\* ------------------------------------------- claims about the wrappers
\* C13: the file-serving wrapper adds exactly 1 to the request counter, runs
\* no hook and takes nothing from the pool, and the access-log line it
\* writes once the file handler has returned carries status 200 whatever
\* the file handler answered.
C13_FileWrapper ==
    \A r \in Reqs :
        (Exited(r) /\ rq[r].wrapper = "file")
            => /\ rq[r].reqAdded = 1
               /\ rq[r].trace = <<>>
               /\ rq[r].res = 0 /\ rq[r].httpCtx = 0
               /\ rq[r].resPut = 0 /\ rq[r].ctxPut = 0
               /\ rq[r].escaped = NoPanic
                    => /\ Len(rq[r].logged) = 1
                       /\ rq[r].logged[1].status = "200"

\* a static-file request the file handler answered with 404 has been logged
C13_Witness ==
    \E r \in Reqs :
        /\ Exited(r) /\ rq[r].wrapper = "file"
        /\ rq[r].fileStatus = 404
        /\ Len(rq[r].logged) = 1

\* C15: in the standard and in the WebSocket wrapper a context is back in
\* the pool only with its references cleared: no context of the free list
\* still holds the request, sink or WebSocket handle of its last request.
C15_ReleasedBeforePut == pool.context \cap held = {}

\* no request is inside a wrapper
Quiet == \A r \in Reqs : rq[r].pc \in {"new", "done", "returned"}

\* C17 as stated: every request that has added 1 to the error counter has
\* added exactly 1 to the request counter when it has finished, and with no
\* request in flight the error count does not exceed the request count.
C17_Original ==
    /\ \A r \in Reqs :
          (Exited(r) /\ rq[r].errAdded = 1) => rq[r].reqAdded = 1
    /\ Quiet => GlobalState.ErrorCount <= GlobalState.RequestCount

\* C17 amended: a finished request of the standard or the file wrapper that
\* added 1 to the error counter added exactly 1 to the request counter; a
\* finished WebSocket connection whose handler panicked added 1 to the
\* error counter and nothing to the request counter; with no request in
\* flight the error count exceeds the request count by at most the number
\* of WebSocket connections whose handler panicked.
C17_ErrorsAndRequests ==
    /\ \A r \in Reqs :
          (Exited(r) /\ rq[r].errAdded >= 1)
              => /\ rq[r].errAdded = 1
                 /\ rq[r].reqAdded = IF rq[r].wrapper = "ws" THEN 0 ELSE 1
    /\ Quiet => GlobalState.ErrorCount <= GlobalState.RequestCount + wsPanics

\* a WebSocket connection whose handler panicked has finished after a
\* standard request whose handler panicked
C17_Witness ==
    \E r \in Reqs :
        /\ Exited(r) /\ rq[r].wrapper = "ws" /\ rq[r].errAdded = 1
        /\ GlobalState.ErrorCount = 2
        /\ GlobalState.RequestCount = 1

\* C18: the finalizer of the standard wrapper closes a compressing sink if
\* and only if one was installed for the same request at setup, also when
\* the gzip flag changes while the request is in flight: it attempts no
\* close on a request that started without a compressor and skips no close
\* of an installed one.
C18_ClosesWhatItInstalled ==
    \A r \in Reqs :
        (Exited(r) /\ Entered(r) /\ rq[r].accessLogs = 1)
            => /\ ~Raised(r, "typeassert")
               /\ rq[r].gz # "open"

\* ------------------------------------- claims about the session manager
\* C12: first-time initialization of the session manager is mutually
\* exclusive, and no caller of GetSessionManager gets its answer from the
\* manager field while an initialization is between its Lock and Unlock: a
\* reader proceeds only once the initialization has completed or panicked.
C12_ReadersWaitForInit ==
    /\ Cardinality({g \in Inits : ini[g] \in {"construct", "unlock"}}) <= 1
    /\ SessionConfig.EnabledSession
         => \A rd \in reads : ~rd.initializing

\* C19: under any interleaving of InitSessionManager calls the session
\* manager is constructed and assigned at most once; a non-nil manager is
\* never replaced by a second construction.
C19_AssignedOnce == Len(assigns) <= 1

\* ---------------------------------------- claims about requests in flight
\* request r is inside the standard or the WebSocket wrapper and a hook or
\* the handler may still run
Running(r) ==
    rq[r].pc \in {"setup", "session", "bind", "hijack", "pre", "handle", "post",
                  "wshandle"}

\* request r is between its pool Get and its pool Put
InFlight(r) == Running(r) \/ rq[r].pc \in {"recover", "finish", "wsfinish"}

\* C11: under any interleaving of requests through the standard and the
\* WebSocket wrapper no pooled context or sink is owned by two in-flight
\* requests at once, and no object is in a free list while the request that
\* took it still has hooks or its handler to run (or has not put it back).
C11_ExclusiveOwnership ==
    /\ \A r1, r2 \in Reqs :
          (r1 # r2 /\ InFlight(r1) /\ InFlight(r2))
              => /\ rq[r1].httpCtx # rq[r2].httpCtx
                 /\ (rq[r1].res # 0 /\ rq[r2].res # 0) => rq[r1].res # rq[r2].res
    /\ \A r \in Reqs :
          InFlight(r) => /\ rq[r].httpCtx \notin pool.context
                         /\ rq[r].res \notin pool.response

\* a standard request is in its handler step while a WebSocket connection
\* is in its handler
C11_Witness ==
    \E r1, r2 \in Reqs :
        /\ rq[r1].pc = "handle" /\ rq[r2].pc = "wshandle"
        /\ rq[r1].httpCtx # 0 /\ rq[r2].httpCtx # 0

\* the client of request r presented no identifier the server could resolve
Unresolved(r) == rq[r].clientSession.err \/ rq[r].clientSession.id = <<>>

\* C16: two concurrent requests that present no resolvable session
\* identifier each mint their own new identifier and each set their own
\* cookie, and neither fails at the session step.
C16_BothMint ==
    \A r1, r2 \in Reqs :
        (r1 # r2 /\ rq[r1].pastSession /\ rq[r2].pastSession
                 /\ Unresolved(r1) /\ Unresolved(r2))
            => /\ rq[r1].SessionID # rq[r2].SessionID
               /\ \A r \in {r1, r2} :
                     /\ \E n \in 1..minted : rq[r].SessionID = NewSessionID(n)
                     /\ rq[r].cookies = << [Name |-> CookieName,
                                            Value |-> QueryEscape(rq[r].SessionID),
                                            Path |-> "/"] >>
                     /\ ~Raised(r, "nilmanager")

\* two requests that presented nothing both made their lookup before
\* either had minted, and both are past the session step with an identifier
\* of their own
C16_Witness ==
    \E r1, r2 \in Reqs :
        /\ r1 # r2
        /\ rq[r1].pastSession /\ rq[r2].pastSession
        /\ Unresolved(r1) /\ Unresolved(r2)
        /\ rq[r1].mintedAtLookup = 0 /\ rq[r2].mintedAtLookup = 0
        /\ InFlight(r1) /\ InFlight(r2)
        /\ minted = 2

====
